---- MODULE Spec2Model ----
(***************************************************************************)
(* A model of the NLP analytics service: the aggregator analyze_text_all   *)
(* and the functions it calls (app/nlp_service.py), and the persistence    *)
(* adapter (app/cosmos_client.py).                                         *)
(*                                                                         *)
(* Conventions.  A Python str is a sequence of one-character strings.      *)
(* Confidence scores are counted in hundredths (0.92 is 92); an average is *)
(* kept as the exact fraction [num, den].  A JSON value is a tagged record *)
(* (JStr, JNum, JNull, JAbsent for a missing key).                         *)
(***************************************************************************)
EXTENDS Integers, Sequences, FiniteSets, TLC

VARIABLES
    pc,              \* position in analyze_text_all
    text,            \* the argument of analyze_text_all
    calls,           \* external calls issued so far, in order: [op, ok]
    lang,            \* local: detect_language(docs)[0], as <<r>>
    sentiment,       \* local: analyze_sentiment(docs)[0], as <<r>>
    key_phrases,     \* local: extract_key_phrases(docs)[0], as <<r>>
    entities,        \* local: recognize_entities(docs)[0], as <<r>>
    pii,             \* local: recognize_pii_entities(docs)[0].entities, as <<list>>
    gpt_summary,     \* local: summarize_using_gpt(text), as <<str>>
    multi_lang,      \* local: the filtered first multi-segment detection, as <<list>>
    pii_filtered,    \* local: the allow-listed PII entries, as <<list>>
    result,          \* <<record>> once analyze_text_all has returned, else <<>>
    raised,          \* the exception that left analyze_text_all, "" if none
    inp,             \* a function checked on its own: its arguments and replies
    out,             \* ... and <<[raised, value]>> once it has run, else <<>>
    session,         \* the dashboard's st.session_state
    settings,        \* the dashboard process's settings, read once at import
    offered,         \* <<bytes>> the last script run gave the download button, else <<>>
    last_save,       \* <<the save_analysis_to_cosmos call>> of the last script run, else <<>>
    submitted        \* history: the last submission, and the text analysed since

vars == <<pc, text, calls, lang, sentiment, key_phrases, entities, pii,
          gpt_summary, multi_lang, pii_filtered, result, raised, inp, out,
          session, settings, offered, last_save, submitted>>

dashVars == <<session, settings, offered, last_save, submitted>>

\* No dashboard session is open.
NoDashboard ==
    /\ session = <<>>
    /\ settings = <<>>
    /\ offered = <<>>
    /\ last_save = <<>>
    /\ submitted = <<>>

analyzeVars == <<pc, text, calls, lang, sentiment, key_phrases, entities, pii,
                 gpt_summary, multi_lang, pii_filtered, result, raised>>

(***************************************************************************)
(* Bounds of the model.                                                    *)
(***************************************************************************)
MaxTextLen == 3
MaxPii == 2
MaxDetectTextLen == 5
MaxWrapChunks == 2
MaxTranslateTextLen == 2
MaxSaves == 2

(***************************************************************************)
(* Strings.                                                                *)
(***************************************************************************)
Alphabet == {" ", "\n", ".", "a"}

IsSpace(c) == c \in {" ", "\n"}

RECURSIVE SeqsUpTo(_, _)
SeqsUpTo(S, n) ==
    IF n = 0 THEN {<<>>}
    ELSE LET shorter == SeqsUpTo(S, n - 1)
         IN  shorter \cup {Append(s, x) : s \in {t \in shorter : Len(t) = n - 1}, x \in S}

Texts(n) == SeqsUpTo(Alphabet, n)

RECURSIVE LStrip(_)
LStrip(s) ==
    IF s # <<>> /\ IsSpace(Head(s)) THEN LStrip(Tail(s)) ELSE s

RECURSIVE RStrip(_)
RStrip(s) ==
    IF s # <<>> /\ IsSpace(s[Len(s)]) THEN RStrip(SubSeq(s, 1, Len(s) - 1)) ELSE s

Strip(s) == RStrip(LStrip(s))

(***************************************************************************)
(* detect_languages_multiline.                                             *)
(***************************************************************************)
IsSeparator(c) == c \in {".", "\n"}

\* The least index >= i of s that holds a separator (or not), Len(s) + 1 if none.
RECURSIVE NextIndex(_, _, _)
NextIndex(s, i, wantSep) ==
    IF i > Len(s) THEN Len(s) + 1
    ELSE IF IsSeparator(s[i]) = wantSep THEN i
    ELSE NextIndex(s, i + 1, wantSep)

\* re.split(r"[.\n]+", text): the pieces between the maximal runs of separators.
RECURSIVE ReSplit(_)
ReSplit(s) ==
    LET i == NextIndex(s, 1, TRUE)
    IN  IF i > Len(s) THEN <<s>>
        ELSE LET j == NextIndex(s, i, FALSE)
             IN  <<SubSeq(s, 1, i - 1)>> \o ReSplit(SubSeq(s, j, Len(s)))

RECURSIVE StripNonEmpty(_)
StripNonEmpty(pieces) ==
    IF pieces = <<>> THEN <<>>
    ELSE LET p == Strip(Head(pieces))
         IN  (IF Len(p) > 0 THEN <<p>> ELSE <<>>) \o StripNonEmpty(Tail(pieces))

Segments(t) == StripNonEmpty(ReSplit(t))

\* What client.detect_language([seg])[0].primary_language can be, or a failed call.
Languages == {[iso6391_name |-> "en", name |-> "English"],
              [iso6391_name |-> "fr", name |-> "French"]}

Scores == {10, 30, 90}

DetectFailure == [ok |-> FALSE, iso6391_name |-> "", name |-> "", confidence_score |-> 0]

DetectReplies ==
    {DetectFailure} \cup
    {[ok |-> TRUE, iso6391_name |-> l.iso6391_name, name |-> l.name, confidence_score |-> c] :
        l \in Languages, c \in Scores}

\* All the ways the service can answer n segment calls, each reply from R.
RepliesFor(R, n) == {o \in SeqsUpTo(R, n) : Len(o) = n}

\* lang_stats is a dict and keeps insertion order: a sequence of its values.
IndexOfCode(stats, code) ==
    LET hits == {i \in 1..Len(stats) : stats[i].iso6391 = code}
    IN  IF hits = {} THEN 0 ELSE CHOOSE i \in hits : TRUE

\* Lines 60-74: a successful reply adds to its code's sum and count.
AccumulateReply(stats, r) ==
    LET k == IndexOfCode(stats, r.iso6391_name)
        withKey == IF k # 0 THEN stats
                   ELSE Append(stats, [language |-> r.name, iso6391 |-> r.iso6391_name,
                                       confidence_sum |-> 0, count |-> 0])
        j == IF k # 0 THEN k ELSE Len(withKey)
    IN  [withKey EXCEPT ![j].confidence_sum = @ + r.confidence_score,
                        ![j].count = @ + 1]

\* A handler that drops what was gathered when a segment fails.
AccumulateOrReset(stats, r) ==
    IF ~r.ok THEN <<>> ELSE AccumulateReply(stats, r)

\* One pass of the loop body, lines 58-78: a failed call leaves lang_stats alone.
Accumulate(stats, r) ==
    IF ~r.ok THEN stats ELSE AccumulateReply(stats, r)

RECURSIVE LangStats(_, _)
LangStats(stats, outs) ==
    IF outs = <<>> THEN stats
    ELSE LangStats(Accumulate(stats, Head(outs)), Tail(outs))

threshold == 20

Max(a, b) == IF a >= b THEN a ELSE b

\* avg_conf as an exact fraction, and its comparisons.
Fraction(n, d) == [num |-> n, den |-> d]
FracGeq(a, b) == a.num * b.den >= b.num * a.den

AboveThreshold(avg) == FracGeq(avg, Fraction(threshold, 1))

\* Lines 84-93: the entries whose average reaches the threshold, in dict order.
RECURSIVE Breakdown(_)
Breakdown(stats) ==
    IF stats = <<>> THEN <<>>
    ELSE LET info == Head(stats)
             avg_conf == Fraction(info.confidence_sum, Max(info.count, 1))
         IN  (IF AboveThreshold(avg_conf)
              THEN <<[language |-> info.language, iso6391 |-> info.iso6391,
                      confidence |-> avg_conf]>>
              ELSE <<>>) \o Breakdown(Tail(stats))

\* list.sort(key=confidence, reverse=True) is stable: x goes after every entry
\* whose confidence is greater than or equal to its own.
RECURSIVE InsertDescending(_, _)
InsertDescending(sorted, x) ==
    IF sorted = <<>> THEN <<x>>
    ELSE IF FracGeq(Head(sorted).confidence, x.confidence)
         THEN <<Head(sorted)>> \o InsertDescending(Tail(sorted), x)
         ELSE <<x>> \o sorted

RECURSIVE SortDescending(_, _)
SortDescending(sorted, rest) ==
    IF rest = <<>> THEN sorted
    ELSE SortDescending(InsertDescending(sorted, Head(rest)), Tail(rest))

SortSkipped(b) == b

SortBreakdown(b) == SortDescending(<<>>, b)

\* detect_languages_multiline(text), given the replies to its segment calls.
detect_languages_multiline(segments, outs) ==
    IF segments = <<>> THEN <<>>
    ELSE SortBreakdown(Breakdown(LangStats(<<>>, outs)))

\* A detection that sends all its segments in one call.
SegmentCallsBatched(outs) ==
    IF outs = <<>> THEN <<>>
    ELSE <<[op |-> "detect_language_segment", ok |-> \A i \in 1..Len(outs) : outs[i].ok]>>

\* The calls one detection issues: one per segment, in order.
SegmentCalls(outs) ==
    [i \in 1..Len(outs) |-> [op |-> "detect_language_segment", ok |-> outs[i].ok]]

(***************************************************************************)
(* The PII sensitivity filter of analyze_text_all.                         *)
(***************************************************************************)
SENSITIVE_PII_CATEGORIES ==
    <<"PhoneNumber", "Email", "CreditCardNumber", "BankAccountNumber",
      "InternationalBankingNumber", "USSocialSecurityNumber", "USITIN",
      "AadhaarNumber", "PassportNumber", "UKNHSNumber", "CADriversLicenseNumber",
      "IPAddress">>

InList(x, list) == \E i \in 1..Len(list) : list[i] = x

IsSensitiveWrongly(category) == category # "Email"

IsSensitive(category) == InList(category, SENSITIVE_PII_CATEGORIES)

\* Lines 267-275: the list comprehension over pii.entities.
RECURSIVE FilterPii(_)
FilterPii(ents) ==
    IF ents = <<>> THEN <<>>
    ELSE LET e == Head(ents)
         IN  (IF IsSensitive(e.category)
              THEN <<[text |-> e.text, category |-> e.category,
                      confidence |-> e.confidence_score]>>
              ELSE <<>>) \o FilterPii(Tail(ents))

\* What recognize_pii_entities can return: the service also reports categories
\* that are not in the allow-list.
PiiEntities ==
    {[text |-> "rahul@example.com", category |-> "Email", confidence_score |-> 80],
     [text |-> "Contoso", category |-> "Organization", confidence_score |-> 60],
     [text |-> "98765-12345", category |-> "PhoneNumber", confidence_score |-> 80]}

PiiLists == SeqsUpTo(PiiEntities, MaxPii)

(***************************************************************************)
(* JSON values and the content of a chat completion.                       *)
(***************************************************************************)
JStr(s) == [t |-> "str", s |-> s, n |-> 0]
JNum(n) == [t |-> "num", s |-> "", n |-> n]
JNull == [t |-> "null", s |-> "", n |-> 0]
JAbsent == [t |-> "absent", s |-> "", n |-> 0]

\* A character of the content, or a whole JSON text standing for its characters
\* (a text that holds no backtick).
Ch(c) == [k |-> "ch", ch |-> c, doc |-> <<>>]
Doc(d) == [k |-> "doc", ch |-> "", doc |-> <<d>>]

JObject(l, c, e) == [kind |-> "object", label |-> l, confidence |-> c, explanation |-> e]
\* Valid JSON that is no object, and text that is no JSON.
JArray == [kind |-> "array", label |-> JAbsent, confidence |-> JAbsent, explanation |-> JAbsent]
JNullDoc == [kind |-> "null", label |-> JAbsent, confidence |-> JAbsent, explanation |-> JAbsent]
NotJson == [kind |-> "garbage", label |-> JAbsent, confidence |-> JAbsent, explanation |-> JAbsent]

ContentIsSpace(tok) == tok.k = "ch" /\ IsSpace(tok.ch)

RECURSIVE ContentLStrip(_)
ContentLStrip(s) ==
    IF s # <<>> /\ ContentIsSpace(Head(s)) THEN ContentLStrip(Tail(s)) ELSE s

RECURSIVE ContentRStrip(_)
ContentRStrip(s) ==
    IF s # <<>> /\ ContentIsSpace(s[Len(s)])
    THEN ContentRStrip(SubSeq(s, 1, Len(s) - 1)) ELSE s

ContentStrip(s) == ContentRStrip(ContentLStrip(s))

StartsWith(s, pat) == Len(s) >= Len(pat) /\ SubSeq(s, 1, Len(pat)) = pat

\* str.replace(pat, ""): the non-overlapping occurrences, leftmost first.
RECURSIVE Remove(_, _)
Remove(s, pat) ==
    IF s = <<>> THEN <<>>
    ELSE IF StartsWith(s, pat) THEN Remove(SubSeq(s, Len(pat) + 1, Len(s)), pat)
    ELSE <<Head(s)>> \o Remove(Tail(s), pat)

\* The backtick character, written out: the lexer takes none inside a string.
Backtick == Ch("backtick")
Fence == <<Backtick, Backtick, Backtick>>
\* "json" is kept as one character: no shorter part of it matters to the code.
FenceJson == Fence \o <<Ch("json")>>

(***************************************************************************)
(* classify_text_gpt.                                                      *)
(***************************************************************************)
CATEGORY_LIST ==
    <<"Personal Information", "Professional / Work", "Education",
      "Technical / Engineering", "Healthcare / Medical", "Finance / Banking",
      "Travel / Location", "Legal / Compliance", "Sentiment / Opinion",
      "Miscellaneous / Other">>

DefaultConfidence == 75
FallbackConfidence == 70

Classification(l, c, e) == [label |-> l, confidence |-> c, explanation |-> e]

Fallback ==
    Classification(JStr("Miscellaneous / Other"), JNum(FallbackConfidence),
                   JStr("Failed to parse GPT classification output."))

\* float(x): a number, or a string that reads as one; anything else raises.
FloatOfString(s) == IF s = "0.92" THEN 92 ELSE -1

CanFloat(v) ==
    \/ v.t = "num"
    \/ v.t = "str" /\ FloatOfString(v.s) >= 0

Float(v) == IF v.t = "num" THEN JNum(v.n) ELSE JNum(FloatOfString(v.s))

\* A lookup that forgets the default.
GetWithoutDefault(v, default) == IF v.t = "absent" THEN JNull ELSE v

\* dict.get(key, default)
Get(v, default) == IF v.t = "absent" THEN default ELSE v

\* Lines 190-192.
Clean(raw) == ContentStrip(Remove(Remove(raw, FenceJson), Fence))

\* json.loads accepts exactly one JSON text (the surrounding blanks are gone).
JsonLoads(s) == IF Len(s) = 1 /\ s[1].k = "doc" /\ s[1].doc[1].kind # "garbage"
                THEN s[1].doc ELSE <<>>

\* Lines 185-210, from the content of the completion on. Inside the try: a
\* JSONDecodeError, an AttributeError (data has no get) and the TypeError or
\* ValueError of float() all end in the fallback.
ParseClassification(content) ==
    LET raw == Clean(ContentStrip(content))
        loaded == JsonLoads(raw)
    IN  IF loaded = <<>> THEN Fallback
        ELSE LET data == loaded[1]
             IN  IF data.kind # "object" THEN Fallback
                 ELSE IF ~CanFloat(Get(data.confidence, JNum(DefaultConfidence))) THEN Fallback
                 ELSE Classification(Get(data.label, JStr("Miscellaneous / Other")),
                                     Float(Get(data.confidence, JNum(DefaultConfidence))),
                                     Get(data.explanation, JStr("")))

\* A reply of chat.completions.create: the request fails, or a completion
\* arrives whose content is None or a string.
RequestFailed == [ok |-> FALSE, has_content |-> FALSE, content |-> <<>>]
NoContent == [ok |-> TRUE, has_content |-> FALSE, content |-> <<>>]
Completion(c) == [ok |-> TRUE, has_content |-> TRUE, content |-> c]

\* classify_text_gpt(text), given the reply to its request: what it returns,
\* or the exception that leaves it (line 176: the request is outside the try;
\* line 185: None has no strip).
classify_text_gpt(reply) ==
    IF ~reply.ok THEN [raised |-> "APIError", value |-> <<>>]
    ELSE IF ~reply.has_content THEN [raised |-> "AttributeError", value |-> <<>>]
    ELSE [raised |-> "", value |-> <<ParseClassification(reply.content)>>]

(***************************************************************************)
(* summarize_using_gpt.                                                    *)
(***************************************************************************)
SummaryReplies ==
    {RequestFailed, NoContent, Completion(<<" ", "a", ".", "\n">>)}

\* A summarizer that swallows a failed request and returns an empty summary.
summarize_using_gpt_swallowing(reply) ==
    IF ~reply.ok \/ ~reply.has_content THEN [raised |-> "", value |-> <<<<>>>>]
    ELSE [raised |-> "", value |-> <<Strip(reply.content)>>]

\* Lines 27-35: the request is not guarded, and None has no strip.
summarize_using_gpt(reply) ==
    IF ~reply.ok THEN [raised |-> "APIError", value |-> <<>>]
    ELSE IF ~reply.has_content THEN [raised |-> "AttributeError", value |-> <<>>]
    ELSE [raised |-> "", value |-> <<Strip(reply.content)>>]

(***************************************************************************)
(* analyze_text_all: one action for each external call it makes, with the  *)
(* code up to the next call.                                               *)
(***************************************************************************)
\* The replies of the analysis service to the whole-document calls.
DocDetectReplies ==
    {r \in DetectReplies : ~r.ok \/ (r.iso6391_name = "en" /\ r.confidence_score = 90)}

\* ... and to the segment calls: a failure, a clear English, a doubtful French.
SegmentReplies ==
    {r \in DetectReplies :
        \/ ~r.ok
        \/ r.iso6391_name = "en" /\ r.confidence_score = 90
        \/ r.iso6391_name = "fr" /\ r.confidence_score < 90}

SentimentReplies ==
    {[ok |-> FALSE, sentiment |-> "", positive |-> 0, neutral |-> 0, negative |-> 0],
     [ok |-> TRUE, sentiment |-> "positive", positive |-> 90, neutral |-> 8, negative |-> 2]}

KeyPhraseReplies ==
    {[ok |-> FALSE, key_phrases |-> <<>>],
     [ok |-> TRUE, key_phrases |-> <<"data analyst", "client meeting">>]}

EntityReplies ==
    {[ok |-> FALSE, entities |-> <<>>],
     [ok |-> TRUE, entities |->
        <<[text |-> "Hyderabad", category |-> "Location", confidence_score |-> 99]>>]}

PiiReplies ==
    {[ok |-> FALSE, entities |-> <<>>]} \cup {[ok |-> TRUE, entities |-> l] : l \in PiiLists}

\* The contents the classifier's completion can hold here.
ClassifierReplies ==
    {RequestFailed, NoContent} \cup
    {Completion(<<Doc(d)>>) :
        d \in {JObject(JStr("Education"), JNum(92), JStr("about school")),
               JObject(JStr("Sports"), JNum(92), JStr("about sport")),
               JObject(JNull, JAbsent, JAbsent),
               NotJson}} \cup
    {Completion(FenceJson \o <<Ch("\n"), Doc(JObject(JStr("Education"), JNum(92),
                                                     JStr("about school"))),
                               Ch("\n")>> \o Fence)}

Call(op, ok) == [op |-> op, ok |-> ok]

\* Line 216.
IsRejectedWrongly(t) == t = <<>>

IsRejected(t) == t = <<>> \/ Strip(t) = <<>>

Raise(e) ==
    /\ pc' = "raised"
    /\ raised' = e

Init ==
    /\ pc = "start"
    /\ text \in Texts(MaxTextLen)
    /\ calls = <<>>
    /\ lang = <<>>
    /\ sentiment = <<>>
    /\ key_phrases = <<>>
    /\ entities = <<>>
    /\ pii = <<>>
    /\ gpt_summary = <<>>
    /\ multi_lang = <<>>
    /\ pii_filtered = <<>>
    /\ result = <<>>
    /\ raised = ""
    /\ inp = <<>>
    /\ out = <<>>
    /\ NoDashboard

\* Lines 216-219.
Validate ==
    /\ pc = "start"
    /\ IF IsRejected(text)
       THEN Raise("ValueError")
       ELSE pc' = "detect_language" /\ raised' = raised
    /\ UNCHANGED <<text, calls, lang, sentiment, key_phrases, entities, pii,
                   gpt_summary, multi_lang, pii_filtered, result, inp, out, dashVars>>

\* Line 222.
DetectLanguage ==
    /\ pc = "detect_language"
    /\ \E r \in DocDetectReplies :
        /\ calls' = Append(calls, Call("detect_language", r.ok))
        /\ IF r.ok
           THEN lang' = <<r>> /\ pc' = "analyze_sentiment" /\ raised' = raised
           ELSE lang' = lang /\ Raise("HttpResponseError")
    /\ UNCHANGED <<text, sentiment, key_phrases, entities, pii, gpt_summary,
                   multi_lang, pii_filtered, result, inp, out, dashVars>>

\* Line 225.
AnalyzeSentiment ==
    /\ pc = "analyze_sentiment"
    /\ \E r \in SentimentReplies :
        /\ calls' = Append(calls, Call("analyze_sentiment", r.ok))
        /\ IF r.ok
           THEN sentiment' = <<r>> /\ pc' = "extract_key_phrases" /\ raised' = raised
           ELSE sentiment' = sentiment /\ Raise("HttpResponseError")
    /\ UNCHANGED <<text, lang, key_phrases, entities, pii, gpt_summary,
                   multi_lang, pii_filtered, result, inp, out, dashVars>>

\* Line 228.
ExtractKeyPhrases ==
    /\ pc = "extract_key_phrases"
    /\ \E r \in KeyPhraseReplies :
        /\ calls' = Append(calls, Call("extract_key_phrases", r.ok))
        /\ IF r.ok
           THEN key_phrases' = <<r>> /\ pc' = "recognize_entities" /\ raised' = raised
           ELSE key_phrases' = key_phrases /\ Raise("HttpResponseError")
    /\ UNCHANGED <<text, lang, sentiment, entities, pii, gpt_summary,
                   multi_lang, pii_filtered, result, inp, out, dashVars>>

\* Line 231.
RecognizeEntities ==
    /\ pc = "recognize_entities"
    /\ \E r \in EntityReplies :
        /\ calls' = Append(calls, Call("recognize_entities", r.ok))
        /\ IF r.ok
           THEN entities' = <<r>> /\ pc' = "recognize_pii_entities" /\ raised' = raised
           ELSE entities' = entities /\ Raise("HttpResponseError")
    /\ UNCHANGED <<text, lang, sentiment, key_phrases, pii, gpt_summary,
                   multi_lang, pii_filtered, result, inp, out, dashVars>>

\* Line 234.
RecognizePii ==
    /\ pc = "recognize_pii_entities"
    /\ \E r \in PiiReplies :
        /\ calls' = Append(calls, Call("recognize_pii_entities", r.ok))
        /\ IF r.ok
           THEN pii' = <<r>> /\ pc' = "summarize" /\ raised' = raised
           ELSE pii' = pii /\ Raise("HttpResponseError")
    /\ UNCHANGED <<text, lang, sentiment, key_phrases, entities, gpt_summary,
                   multi_lang, pii_filtered, result, inp, out, dashVars>>

\* Lines 237-238.
Summarize ==
    /\ pc = "summarize"
    /\ \E r \in SummaryReplies :
        LET got == summarize_using_gpt(r)
        IN  /\ calls' = Append(calls, Call("summarize", r.ok))
            /\ IF got.raised = ""
               THEN gpt_summary' = got.value /\ pc' = "multi_lang" /\ raised' = raised
               ELSE gpt_summary' = gpt_summary /\ Raise(got.raised)
    /\ UNCHANGED <<text, lang, sentiment, key_phrases, entities, pii,
                   multi_lang, pii_filtered, result, inp, out, dashVars>>

\* Lines 244-247.
RECURSIVE KeepConfident(_)
KeepConfident(b) ==
    IF b = <<>> THEN <<>>
    ELSE (IF AboveThreshold(Head(b).confidence) THEN <<Head(b)>> ELSE <<>>)
         \o KeepConfident(Tail(b))

\* Lines 243-275: the first multi-segment detection, which never raises, and
\* the PII filter.
DetectMultiLanguage ==
    /\ pc = "multi_lang"
    /\ \E outs \in RepliesFor(SegmentReplies, Len(Segments(text))) :
        /\ calls' = calls \o SegmentCalls(outs)
        /\ multi_lang' = <<KeepConfident(detect_languages_multiline(Segments(text), outs))>>
    /\ pii_filtered' = <<FilterPii(pii[1].entities)>>
    /\ pc' = "multi_language"
    /\ UNCHANGED <<text, lang, sentiment, key_phrases, entities, pii, gpt_summary,
                   result, raised, inp, out, dashVars>>

\* The dict of lines 280-314, from the values it is built of.
RecordOf(l, s, k, e, p, g, ml, cls) ==
    [language |-> [name |-> l.name, iso6391 |-> l.iso6391_name,
                   confidence |-> l.confidence_score],
     multi_language |-> ml,
     sentiment |-> [overall |-> s.sentiment,
                    scores |-> [positive |-> s.positive,
                                neutral |-> s.neutral,
                                negative |-> s.negative]],
     classification |-> cls,
     key_phrases |-> k.key_phrases,
     entities |-> [i \in 1..Len(e.entities) |->
                    [text |-> e.entities[i].text,
                     category |-> e.entities[i].category,
                     confidence |-> e.entities[i].confidence_score]],
     pii |-> p,
     summary |-> <<g>>]

\* ... from the locals of analyze_text_all.
Record(ml, cls) ==
    RecordOf(lang[1], sentiment[1], key_phrases[1], entities[1], pii_filtered[1],
             gpt_summary[1], ml, cls)

\* Lines 280-314: the dict is built in the order written, so the second
\* multi-segment detection (line 287) runs, then the classifier (line 298); a
\* classifier that raises leaves no record.
BuildRecord ==
    /\ pc = "multi_language"
    /\ \E outs \in RepliesFor(SegmentReplies, Len(Segments(text))), reply \in ClassifierReplies :
        LET ml == detect_languages_multiline(Segments(text), outs)
            cls == classify_text_gpt(reply)
        IN  /\ calls' = (calls \o SegmentCalls(outs)) \o <<Call("classify", reply.ok)>>
            /\ IF cls.raised = ""
               THEN /\ result' = <<Record(ml, cls.value[1])>>
                    /\ pc' = "returned"
                    /\ raised' = raised
               ELSE /\ result' = result
                    /\ Raise(cls.raised)
    /\ UNCHANGED <<text, lang, sentiment, key_phrases, entities, pii, gpt_summary,
                   multi_lang, pii_filtered, inp, out, dashVars>>

Next ==
    \/ Validate
    \/ DetectLanguage
    \/ AnalyzeSentiment
    \/ ExtractKeyPhrases
    \/ RecognizeEntities
    \/ RecognizePii
    \/ Summarize
    \/ DetectMultiLanguage
    \/ BuildRecord

Spec == Init /\ [][Next]_vars

(***************************************************************************)
(* Properties of analyze_text_all, under Spec.                             *)
(***************************************************************************)
Returned == pc = "returned"

\* C1: for every non-empty text and every content the generative service can
\* return, the returned record has a classification.label that is not null
\* and is one of the 10 fixed categories.
C1_LabelIsAlwaysACategory ==
    Returned =>
        /\ result[1].classification.label.t = "str"
        /\ InList(result[1].classification.label.s, CATEGORY_LIST)

\* A text of blanks only (or of nothing).
OnlyWhitespace(t) == \A i \in 1..Len(t) : t[i] \in {" ", "\n"}

\* C2: empty or whitespace-only text fails with a validation error, and no
\* external call has been issued in that run.
C2_BlankTextRejectedBeforeAnyCall ==
    OnlyWhitespace(text) =>
        /\ calls = <<>>
        /\ result = <<>>
        /\ pc \in {"start", "raised"}
        /\ pc = "raised" => raised = "ValueError"

C2_Witness ==
    /\ pc = "raised"
    /\ raised = "ValueError"
    /\ Len(text) = MaxTextLen
    /\ OnlyWhitespace(text)
    /\ calls = <<>>

\* C4: every entry of the record's multi_language has confidence >= 0.20, and
\* the entries are in non-increasing order of confidence.
C4_MultiLanguageConfidentAndSorted ==
    Returned =>
        LET ml == result[1].multi_language
        IN  /\ \A i \in 1..Len(ml) : ml[i].confidence.num >= 20 * ml[i].confidence.den
            /\ \A i, j \in 1..Len(ml) :
                i < j => ml[i].confidence.num * ml[j].confidence.den
                            >= ml[j].confidence.num * ml[i].confidence.den

C4_Witness ==
    /\ Returned
    /\ Len(result[1].multi_language) = 2
    /\ result[1].multi_language[1].iso6391 = "en"
    /\ result[1].multi_language[2].iso6391 = "fr"
    /\ result[1].multi_language[2].confidence = Fraction(30, 1)

\* The indices of the service's PII entities whose category is allow-listed.
AllowedIndices(src) ==
    {i \in 1..Len(src) : \E k \in 1..Len(SENSITIVE_PII_CATEGORIES) :
                            SENSITIVE_PII_CATEGORIES[k] = src[i].category}

\* The k-th of them, in the service's order.
KthAllowed(src, k) ==
    CHOOSE i \in AllowedIndices(src) : Cardinality({j \in AllowedIndices(src) : j <= i}) = k

\* C5: the record's pii is exactly the subsequence of the service's PII
\* entities whose category is in the 12-entry allow-list, in the service's order.
C5_PiiIsTheAllowListedSubsequence ==
    Returned =>
        LET src == pii[1].entities
            kept == result[1].pii
        IN  /\ Len(SENSITIVE_PII_CATEGORIES) = 12
            /\ Len(kept) = Cardinality(AllowedIndices(src))
            /\ \A k \in 1..Len(kept) :
                /\ kept[k].text = src[KthAllowed(src, k)].text
                /\ kept[k].category = src[KthAllowed(src, k)].category
                /\ kept[k].confidence = src[KthAllowed(src, k)].confidence_score

C5_Witness ==
    /\ Returned
    /\ Len(pii[1].entities) = 2
    /\ pii[1].entities[1].category = "Organization"
    /\ pii[1].entities[2].category = "Email"
    /\ Len(result[1].pii) = 1
    /\ result[1].pii[1].category = "Email"

FatalCalls == {"detect_language", "analyze_sentiment", "extract_key_phrases",
               "recognize_entities", "recognize_pii_entities", "summarize"}

\* C6: when a language-analysis call or the summarizer call fails, the failure
\* reaches the caller and no record is returned: the failed call is the last
\* one issued, the run has ended in an exception and there is no result.
C6_FailedCallAbortsTheAggregation ==
    \A i \in 1..Len(calls) :
        (calls[i].op \in FatalCalls /\ ~calls[i].ok) =>
            /\ i = Len(calls)
            /\ pc = "raised"
            /\ raised # ""
            /\ result = <<>>

C6_Witness ==
    /\ pc = "raised"
    /\ Len(calls) = 6
    /\ calls[6].op = "summarize"
    /\ ~calls[6].ok
    /\ result = <<>>

(***************************************************************************)
(* Specifications that run one function on its own.  analyze_text_all is   *)
(* idle in them.                                                           *)
(***************************************************************************)
Idle ==
    /\ pc = "idle"
    /\ text = <<>>
    /\ calls = <<>>
    /\ lang = <<>>
    /\ sentiment = <<>>
    /\ key_phrases = <<>>
    /\ entities = <<>>
    /\ pii = <<>>
    /\ gpt_summary = <<>>
    /\ multi_lang = <<>>
    /\ pii_filtered = <<>>
    /\ result = <<>>
    /\ raised = ""
    /\ NoDashboard

Ran == out # <<>>

(***************************************************************************)
(* detect_languages_multiline on its own (SpecDetect).                     *)
(***************************************************************************)
InitDetect ==
    /\ Idle
    /\ inp \in {[text |-> t, outs |-> <<>>] : t \in Texts(MaxDetectTextLen)}
    /\ out = <<>>

\* Lines 39-97, with a reply for each segment call: the except clause of the
\* loop catches every failure of a call, and nothing else in the function can
\* fail.
RunDetect ==
    /\ pc = "idle"
    /\ out = <<>>
    /\ \E outs \in RepliesFor(DetectReplies, Len(Segments(inp.text))) :
        /\ inp' = [inp EXCEPT !.outs = outs]
        /\ out' = <<[raised |-> "",
                     value |-> detect_languages_multiline(Segments(inp.text), outs)]>>
    /\ UNCHANGED <<analyzeVars, dashVars>>

SpecDetect == InitDetect /\ [][RunDetect]_vars

\* The segments that were detected, with code c.
DetectedAs(outs, c) == {i \in 1..Len(outs) : outs[i].ok /\ outs[i].iso6391_name = c}

RECURSIVE SumOfScores(_, _)
SumOfScores(outs, I) ==
    IF I = {} THEN 0
    ELSE LET i == CHOOSE x \in I : TRUE
         IN  outs[i].confidence_score + SumOfScores(outs, I \ {i})

\* The codes whose average over the detected segments is >= 0.20.
ConfidentCodes(outs) ==
    {c \in {outs[i].iso6391_name : i \in {j \in 1..Len(outs) : outs[j].ok}} :
        SumOfScores(outs, DetectedAs(outs, c)) >= 20 * Cardinality(DetectedAs(outs, c))}

\* C10: detect_languages_multiline never aborts on a failed segment call; it
\* returns exactly one entry for each code whose average confidence over the
\* successfully detected segments is >= 0.20, failed segments adding to neither
\* sum nor count, and the empty list when every segment fails.
C10_OneEntryPerConfidentCode ==
    Ran =>
        LET outs == inp.outs
            got == out[1].value
        IN  /\ out[1].raised = ""
            /\ Len(got) = Cardinality(ConfidentCodes(outs))
            /\ {got[k].iso6391 : k \in 1..Len(got)} = ConfidentCodes(outs)
            /\ \A k \in 1..Len(got) :
                got[k].confidence.num * Cardinality(DetectedAs(outs, got[k].iso6391))
                    = SumOfScores(outs, DetectedAs(outs, got[k].iso6391)) * got[k].confidence.den
            /\ (\A i \in 1..Len(outs) : ~outs[i].ok) => got = <<>>

\* A failed segment between two detected ones: French averages (10 + 30) / 2.
C10_Witness ==
    /\ Ran
    /\ Len(inp.outs) = 3
    /\ inp.outs[1].ok /\ inp.outs[1].iso6391_name = "fr" /\ inp.outs[1].confidence_score = 10
    /\ ~inp.outs[2].ok
    /\ inp.outs[3].ok /\ inp.outs[3].iso6391_name = "fr" /\ inp.outs[3].confidence_score = 30
    /\ Len(out[1].value) = 1
    /\ out[1].value[1].confidence = Fraction(40, 2)

(***************************************************************************)
(* classify_text_gpt on its own (SpecClassify).                            *)
(***************************************************************************)
\* The JSON texts the model may write.
Payloads ==
    {JObject(l, c, e) :
        l \in {JAbsent, JNull, JStr("Education"), JStr("Sports")},
        c \in {JAbsent, JNull, JNum(92), JStr("0.92"), JStr("high")},
        e \in {JAbsent, JStr("about school")}}
    \cup {JArray, JNullDoc, NotJson}

\* What it may put around them: the concatenations of at most n of the chunks.
RECURSIVE Wraps(_, _)
Wraps(chunks, n) ==
    IF n = 0 THEN {<<>>}
    ELSE Wraps(chunks, n - 1) \cup {w \o c : w \in Wraps(chunks, n - 1), c \in chunks}

Blank == <<Ch("\n")>>
Before == Wraps({Fence, FenceJson, <<Backtick>>, Blank}, MaxWrapChunks)
After == Wraps({Fence, <<Backtick>>, Blank}, MaxWrapChunks)

InitClassify ==
    /\ Idle
    /\ inp \in {[payload |-> d, reply |-> RequestFailed] : d \in Payloads}
    /\ out = <<>>

\* classify_text_gpt, with the reply to its request.
RunClassify ==
    /\ pc = "idle"
    /\ out = <<>>
    /\ \E reply \in {RequestFailed, NoContent} \cup
                    {Completion(b \o <<Doc(inp.payload)>> \o a) : b \in Before, a \in After} :
        /\ inp' = [inp EXCEPT !.reply = reply]
        /\ out' = <<classify_text_gpt(reply)>>
    /\ UNCHANGED <<analyzeVars, dashVars>>

SpecClassify == InitClassify /\ [][RunClassify]_vars

\* C3: classify_text_gpt never raises: a content that does not parse and a
\* failed request alike yield the fixed fallback record.
C3_ClassifierNeverRaises ==
    Ran =>
        /\ out[1].raised = ""
        /\ ~inp.reply.ok =>
            out[1].value = <<[label |-> JStr("Miscellaneous / Other"),
                              confidence |-> JNum(70),
                              explanation |-> JStr("Failed to parse GPT classification output.")]>>

\* The reply's content, cleaned, is one JSON object.
CleanedIsObject ==
    /\ inp.reply.ok
    /\ inp.reply.has_content
    /\ LET c == Clean(ContentStrip(inp.reply.content))
       IN  Len(c) = 1 /\ c[1].k = "doc" /\ c[1].doc[1].kind = "object"

OrElse(v, default) == IF v.t = "absent" THEN default ELSE v

\* The record made of the object's own values, with the three defaults.
Verbatim(obj) ==
    [label |-> OrElse(obj.label, JStr("Miscellaneous / Other")),
     confidence |-> OrElse(obj.confidence, JNum(75)),
     explanation |-> OrElse(obj.explanation, JStr(""))]

\* The same content inside code-fence markers.
Fenced(content) ==
    {FenceJson \o <<Ch("\n")>> \o content \o <<Ch("\n")>> \o Fence,
     Fence \o content \o Fence}

\* C9 as stated: when the cleaned content is a JSON object, the classifier
\* returns the object's label, confidence and explanation, with the defaults
\* "Miscellaneous / Other", 0.75 and "" for absent keys, and the same with the
\* content wrapped in code-fence markers.
C9_ObjectValuesReturned ==
    (Ran /\ CleanedIsObject) =>
        /\ out[1].raised = ""
        /\ out[1].value = <<Verbatim(inp.payload)>>
        /\ \A f \in Fenced(inp.reply.content) : ParseClassification(f) = out[1].value[1]

\* C9 amended: the confidence is returned as float() reads it, so a numeric
\* string comes back as its number; when float() rejects the object's
\* confidence (null, a string that is no number), the fixed fallback record is
\* returned in place of the object's values.
C9_ObjectValuesReturnedWhenConfidenceIsNumeric ==
    (Ran /\ CleanedIsObject) =>
        LET conf == OrElse(inp.payload.confidence, JNum(75))
            expected ==
                IF conf.t = "num" THEN Verbatim(inp.payload)
                ELSE IF conf.t = "str" /\ FloatOfString(conf.s) >= 0
                     THEN [Verbatim(inp.payload) EXCEPT !.confidence = JNum(FloatOfString(conf.s))]
                ELSE [label |-> JStr("Miscellaneous / Other"),
                      confidence |-> JNum(70),
                      explanation |-> JStr("Failed to parse GPT classification output.")]
        IN  /\ out[1].raised = ""
            /\ out[1].value = <<expected>>
            /\ \A f \in Fenced(inp.reply.content) : ParseClassification(f) = expected

\* An object without a confidence, written inside ```json ... ``` markers.
C9_Witness ==
    /\ Ran
    /\ CleanedIsObject
    /\ inp.payload = JObject(JStr("Education"), JAbsent, JAbsent)
    /\ inp.reply.content = FenceJson \o <<Ch("\n"), Doc(inp.payload), Ch("\n")>> \o Fence
    /\ out[1].value = <<[label |-> JStr("Education"), confidence |-> JNum(75),
                         explanation |-> JStr("")]>>

(***************************************************************************)
(* translate_text on its own (SpecTranslate).                              *)
(***************************************************************************)
\* os.getenv("AZURE_TRANSLATE_ENDPOINT"): None when the setting is missing.
EndpointSettings == {<<>>, <<"https://translator">>}

\* What the POST can come to: requests.post raises, raise_for_status raises,
\* resp.json() raises, the body has another shape, or the translation is there.
PostReplies == {"connection_error", "http_error", "not_json", "wrong_shape", "ok"}

\* The returned str: the translation, or "Translation error: ..." (line 125).
Translation(t, to) == [str |-> "translation", of |-> t, to |-> to, error |-> ""]
TranslationError(e) == [str |-> "Translation error: ", of |-> <<>>, to |-> "", error |-> e]

\* Lines 104-125. Line 108 adds a str to the endpoint before the try begins.
translate_text(t, target_lang, endpoint, reply) ==
    IF endpoint = <<>> THEN [raised |-> "TypeError", value |-> <<>>]
    ELSE IF reply = "ok" THEN [raised |-> "", value |-> <<Translation(t, target_lang)>>]
    ELSE [raised |-> "", value |-> <<TranslationError(reply)>>]

InitTranslate ==
    /\ Idle
    /\ inp \in {[text |-> t, target_lang |-> l, azure_translate_endpoint |-> e, reply |-> ""] :
                    t \in Texts(MaxTranslateTextLen), l \in {"en", "es"}, e \in EndpointSettings}
    /\ out = <<>>

\* translate_text, with the reply to its POST when it gets to send one.
RunTranslate ==
    /\ pc = "idle"
    /\ out = <<>>
    /\ \E reply \in IF inp.azure_translate_endpoint = <<>> THEN {""} ELSE PostReplies :
        /\ inp' = [inp EXCEPT !.reply = reply]
        /\ out' = <<translate_text(inp.text, inp.target_lang,
                                   inp.azure_translate_endpoint, reply)>>
    /\ UNCHANGED <<analyzeVars, dashVars>>

SpecTranslate == InitTranslate /\ [][RunTranslate]_vars

\* C7: translate_text never raises: for every text, target language and
\* configuration state, a missing translator endpoint setting included, it
\* returns a string, an inline error message on failure.
C7_TranslateNeverRaises ==
    Ran =>
        /\ out[1].raised = ""
        /\ Len(out[1].value) = 1
        /\ inp.reply # "ok" => out[1].value[1].str = "Translation error: "

(***************************************************************************)
(* save_analysis_to_cosmos (SpecCosmos): calls holds the create_item calls *)
(* made on the container, each with the document it was given.             *)
(***************************************************************************)
\* The "classification" of a result: no such key, None, or a dict.
NoKey == [key |-> FALSE, dict |-> FALSE, label |-> JAbsent, confidence |-> JAbsent]
NoneValue == [key |-> TRUE, dict |-> FALSE, label |-> JAbsent, confidence |-> JAbsent]
DictValue(l, c) == [key |-> TRUE, dict |-> TRUE, label |-> l, confidence |-> c]

ResultsToSave ==
    {[classification |-> c, pii |-> FilterPii(p)] :
        c \in {NoKey, NoneValue} \cup
              {DictValue(l, JNum(92)) :
                  l \in {JAbsent, JNull, JStr(""), JStr("Education"), JStr("Sports")}},
        p \in {<<>>, <<CHOOSE e \in PiiEntities : e.category = "PhoneNumber",
                       CHOOSE e \in PiiEntities : e.category = "Email">>}}

\* sorted({...}) over the categories of the allow-listed entities in use.
SortedCategories(cats) ==
    (IF "Email" \in cats THEN <<"Email">> ELSE <<>>)
    \o (IF "PhoneNumber" \in cats THEN <<"PhoneNumber">> ELSE <<>>)

\* dict.get(key) of a key that is missing reads None.
GetOrNone(v) == IF v.t = "absent" THEN JNull ELSE v

\* Lines 30-66, for a classification that has a get. (The timestamp and the
\* fields copied unread from the result are left out; the uuid is the number
\* of the document.)
build_cosmos_document(res, raw_text, source_type, file_name, id) ==
    [id |-> id,
     source_type |-> source_type,
     file_name |-> file_name,
     classification_label |-> GetOrNone(res.classification.label),
     classification_confidence |-> GetOrNone(res.classification.confidence),
     has_pii |-> res.pii # <<>>,
     pii_categories |-> SortedCategories({res.pii[i].category : i \in 1..Len(res.pii)}),
     raw_text |-> raw_text]

\* A check for None only.
IsFalsyWrongly(v) == v.t \in {"null", "absent"}

\* Python's "not v": None, the empty string and zero.
IsFalsy(v) ==
    \/ v.t \in {"null", "absent"}
    \/ v.t = "str" /\ v.s = ""
    \/ v.t = "num" /\ v.n = 0

\* Lines 72-74.
WithPartitionKey(doc) ==
    IF IsFalsy(doc.classification_label)
    THEN [doc EXCEPT !.classification_label = JStr("Unclassified")]
    ELSE doc

Submissions == {[source_type |-> "text", file_name |-> <<>>],
                [source_type |-> "file", file_name |-> <<"notes.txt">>]}

InitCosmos ==
    /\ Idle
    /\ inp = <<>>
    /\ out = <<>>

\* Lines 69-80. result.get("classification", {}) is None when the key holds
\* None, and line 52 then raises before any document exists; a
\* CosmosHttpResponseError of create_item is raised again as a RuntimeError.
SaveAnalysis ==
    /\ pc = "idle"
    /\ Len(calls) < MaxSaves
    /\ \E res \in ResultsToSave, sub \in Submissions :
        LET args == [result |-> res, raw_text |-> <<"a">>,
                     source_type |-> sub.source_type, file_name |-> sub.file_name]
            doc == WithPartitionKey(build_cosmos_document(res, args.raw_text, args.source_type,
                                                          args.file_name, Len(calls) + 1))
        IN  /\ inp' = <<args>>
            /\ IF res.classification.key /\ ~res.classification.dict
               THEN /\ calls' = calls
                    /\ out' = <<[raised |-> "AttributeError", value |-> <<>>]>>
               ELSE \E stored \in BOOLEAN :
                    /\ calls' = Append(calls, [op |-> "create_item", ok |-> stored, doc |-> doc])
                    /\ out' = IF stored THEN <<[raised |-> "", value |-> <<doc.id>>]>>
                              ELSE <<[raised |-> "RuntimeError", value |-> <<>>]>>
    /\ UNCHANGED <<pc, text, lang, sentiment, key_phrases, entities, pii, gpt_summary,
                   multi_lang, pii_filtered, result, raised, dashVars>>

SpecCosmos == InitCosmos /\ [][SaveAnalysis]_vars

\* C8: every document passed to create_item has a non-empty
\* classification_label: the record's classification label when that label is
\* non-empty, and "Unclassified" when the record has no classification, or a
\* null or empty label.
C8_PartitionKeyNeverEmpty ==
    /\ \A i \in 1..Len(calls) :
        /\ calls[i].doc.classification_label.t = "str"
        /\ calls[i].doc.classification_label.s # ""
    /\ (Ran /\ out[1].raised # "AttributeError") =>
        LET given == inp[1].result.classification.label
            key == calls[Len(calls)].doc.classification_label
        IN  IF given.t = "str" /\ given.s # "" THEN key = given
            ELSE key = JStr("Unclassified")

C8_Witness ==
    /\ Len(calls) = 2
    /\ calls[1].doc.classification_label = JStr("Education")
    /\ inp[1].result.classification = DictValue(JStr(""), JNum(92))
    /\ calls[2].doc.classification_label = JStr("Unclassified")
    /\ calls[2].ok

(***************************************************************************)
(* The order of the external calls of analyze_text_all, under Spec.        *)
(***************************************************************************)
Repeat(op, n) == [i \in 1..n |-> op]

\* The calls of a complete run on text t, in the order of the code.
CallOrder(t) ==
    <<"detect_language", "analyze_sentiment", "extract_key_phrases",
      "recognize_entities", "recognize_pii_entities", "summarize">>
    \o Repeat("detect_language_segment", Len(Segments(t)))
    \o Repeat("detect_language_segment", Len(Segments(t)))
    \o <<"classify">>

\* b is a breakdown a detection of segments segs can give when its calls
\* succeeded and failed as the calls first, first + 1, ... of the log did.
IsBreakdownOf(b, segs, first) ==
    \E o \in [1..Len(segs) -> SegmentReplies] :
        /\ \A i \in 1..Len(segs) : o[i].ok = calls[first + i - 1].ok
        /\ b = detect_languages_multiline(segs, o)

\* C11: the external calls of one run are issued one at a time in the fixed
\* order language detection, sentiment, key phrases, entities, PII, summarizer,
\* a first multi-segment detection (its result is not in the record), a second
\* multi-segment detection (its result is the record's multi_language), the
\* classifier; after a call that fails fatally no later call is issued.
C11_CallsInFixedOrder ==
    LET segs == Segments(text)
        n == Len(segs)
        order == CallOrder(text)
    IN  /\ Len(calls) <= Len(order)
        /\ \A i \in 1..Len(calls) :
            /\ calls[i].op = order[i]
            /\ (calls[i].op # "detect_language_segment" /\ ~calls[i].ok) =>
                    i = Len(calls) /\ pc = "raised"
        /\ pc = "multi_language" =>
            /\ Len(calls) = 6 + n
            /\ IsBreakdownOf(multi_lang[1], segs, 7)
        /\ Returned =>
            /\ Len(calls) = Len(order)
            /\ IsBreakdownOf(result[1].multi_language, segs, 7 + n)

\* Two segments; every call of the first detection fails and every call of the
\* second succeeds, and the record holds what the second one found.
C11_Witness ==
    /\ Returned
    /\ Len(Segments(text)) = 2
    /\ ~calls[7].ok /\ ~calls[8].ok
    /\ calls[9].ok /\ calls[10].ok
    /\ calls[11].op = "classify"
    /\ multi_lang[1] = <<>>
    /\ Len(result[1].multi_language) = 2

(***************************************************************************)
(* The dashboard's export: json.dumps(result, indent=2, ensure_ascii=False) *)
(* encoded as utf-8, and the json.loads that reads such a file back.       *)
(***************************************************************************)
\* Python values: None, a str (its characters; a word no part of which
\* matters is kept as one character), a float, a list, and a dict as the
\* list of its items in insertion order.
PyNone == [py |-> "None", v |-> <<>>]
PyStr(s) == [py |-> "str", v |-> s]
PyFloat(x) == [py |-> "float", v |-> <<x>>]
PyList(items) == [py |-> "list", v |-> items]
PyDict(items) == [py |-> "dict", v |-> items]
Item(k, v) == [key |-> k, value |-> v]
Word(w) == <<w>>

\* A value that json.loads produced earlier (the classifier's fields).
PyOfJson(v) ==
    IF v.t = "str" THEN PyStr(Word(v.s))
    ELSE IF v.t = "num" THEN PyFloat(v.n)
    ELSE PyNone

PyEntity(e) ==
    PyDict(<<Item("text", PyStr(Word(e.text))),
             Item("category", PyStr(Word(e.category))),
             Item("confidence", PyFloat(e.confidence))>>)

\* The dict that analyze_text_all returns, as the Python value it is.
PyResult(r) ==
    PyDict(<<
        Item("language",
             PyDict(<<Item("name", PyStr(Word(r.language.name))),
                      Item("iso6391", PyStr(Word(r.language.iso6391))),
                      Item("confidence", PyFloat(r.language.confidence))>>)),
        Item("multi_language",
             PyList([i \in 1..Len(r.multi_language) |->
                PyDict(<<Item("language", PyStr(Word(r.multi_language[i].language))),
                         Item("iso6391", PyStr(Word(r.multi_language[i].iso6391))),
                         Item("confidence", PyFloat(r.multi_language[i].confidence))>>)])),
        Item("sentiment",
             PyDict(<<Item("overall", PyStr(Word(r.sentiment.overall))),
                      Item("scores",
                           PyDict(<<Item("positive", PyFloat(r.sentiment.scores.positive)),
                                    Item("neutral", PyFloat(r.sentiment.scores.neutral)),
                                    Item("negative", PyFloat(r.sentiment.scores.negative))>>))>>)),
        Item("classification",
             PyDict(<<Item("label", PyOfJson(r.classification.label)),
                      Item("confidence", PyOfJson(r.classification.confidence)),
                      Item("explanation", PyOfJson(r.classification.explanation))>>)),
        Item("key_phrases",
             PyList([i \in 1..Len(r.key_phrases) |-> PyStr(Word(r.key_phrases[i]))])),
        Item("entities", PyList([i \in 1..Len(r.entities) |-> PyEntity(r.entities[i])])),
        Item("pii", PyList([i \in 1..Len(r.pii) |-> PyEntity(r.pii[i])])),
        Item("summary", PyList([i \in 1..Len(r.summary) |-> PyStr(r.summary[i])]))>>)

\* The lexemes of a JSON text: punctuation, the blank run that indent=2 puts
\* between them, null, a string literal (its escaped characters) and a number.
Tok(k) == [tok |-> k, v |-> <<>>]
Blanks == Tok("blanks")
StrTok(s) == [tok |-> "str", v |-> s]
NumTok(x) == [tok |-> "num", v |-> <<x>>]

\* The escapes of a string literal; with ensure_ascii=False every other
\* character stands for itself.
RECURSIVE Escape(_)
Escape(s) ==
    IF s = <<>> THEN <<>>
    ELSE (IF Head(s) = "\n" THEN <<"\\", "n">>
          ELSE IF Head(s) = "\\" THEN <<"\\", "\\">>
          ELSE <<Head(s)>>) \o Escape(Tail(s))

RECURSIVE Unescape(_)
Unescape(s) ==
    IF s = <<>> THEN <<>>
    ELSE IF Head(s) = "\\" /\ Len(s) >= 2
         THEN <<IF s[2] = "n" THEN "\n" ELSE s[2]>> \o Unescape(SubSeq(s, 3, Len(s)))
         ELSE <<Head(s)>> \o Unescape(Tail(s))

\* json.dumps(value, indent=2, ensure_ascii=False): an empty list or dict is
\* written closed; otherwise every item goes on a line of its own.
RECURSIVE json_dumps(_), DumpItems(_), DumpMembers(_)
json_dumps(x) ==
    IF x.py = "None" THEN <<Tok("null")>>
    ELSE IF x.py = "str" THEN <<StrTok(Escape(x.v))>>
    ELSE IF x.py = "float" THEN <<NumTok(x.v[1])>>
    ELSE IF x.py = "list"
         THEN IF x.v = <<>> THEN <<Tok("["), Tok("]")>>
              ELSE <<Tok("["), Blanks>> \o DumpItems(x.v) \o <<Blanks, Tok("]")>>
    ELSE IF x.v = <<>> THEN <<Tok("{"), Tok("}")>>
         ELSE <<Tok("{"), Blanks>> \o DumpMembers(x.v) \o <<Blanks, Tok("}")>>

DumpItems(items) ==
    json_dumps(Head(items))
    \o (IF Tail(items) = <<>> THEN <<>>
        ELSE <<Tok(","), Blanks>> \o DumpItems(Tail(items)))

DumpMembers(items) ==
    (<<StrTok(Escape(Word(Head(items).key))), Tok(":"), Blanks>>
     \o json_dumps(Head(items).value))
    \o (IF Tail(items) = <<>> THEN <<>>
        ELSE <<Tok(","), Blanks>> \o DumpMembers(Tail(items)))

\* str.encode("utf-8") and bytes.decode("utf-8"): every lexeme becomes the
\* run of bytes that spells it.
Utf8Encode(s) == [i \in 1..Len(s) |-> [bytes |-> s[i]]]
Utf8Decode(b) == [i \in 1..Len(b) |-> b[i].bytes]

\* json.loads: a recursive descent over the lexemes. A parse gives the value
\* and the index after it, or fails.
Parsed(x, i) == [ok |-> TRUE, value |-> x, next |-> i]
ParseFailed == [ok |-> FALSE, value |-> PyNone, next |-> 0]

RECURSIVE SkipBlanks(_, _)
SkipBlanks(s, i) ==
    IF i <= Len(s) /\ s[i].tok = "blanks" THEN SkipBlanks(s, i + 1) ELSE i

RECURSIVE ParseValue(_, _), ParseItems(_, _, _), ParseMembers(_, _, _)
ParseValue(s, from) ==
    LET i == SkipBlanks(s, from)
    IN  IF i > Len(s) THEN ParseFailed
        ELSE IF s[i].tok = "null" THEN Parsed(PyNone, i + 1)
        ELSE IF s[i].tok = "str" THEN Parsed(PyStr(Unescape(s[i].v)), i + 1)
        ELSE IF s[i].tok = "num" THEN Parsed(PyFloat(s[i].v[1]), i + 1)
        ELSE IF s[i].tok = "[" THEN ParseItems(s, i + 1, <<>>)
        ELSE IF s[i].tok = "{" THEN ParseMembers(s, i + 1, <<>>)
        ELSE ParseFailed

ParseItems(s, from, acc) ==
    LET i == SkipBlanks(s, from)
    IN  IF i > Len(s) THEN ParseFailed
        ELSE IF s[i].tok = "]" /\ acc = <<>> THEN Parsed(PyList(<<>>), i + 1)
        ELSE LET item == ParseValue(s, i)
                 j == SkipBlanks(s, item.next)
             IN  IF ~item.ok \/ j > Len(s) THEN ParseFailed
                 ELSE IF s[j].tok = "," THEN ParseItems(s, j + 1, Append(acc, item.value))
                 ELSE IF s[j].tok = "]" THEN Parsed(PyList(Append(acc, item.value)), j + 1)
                 ELSE ParseFailed

ParseMembers(s, from, acc) ==
    LET i == SkipBlanks(s, from)
    IN  IF i > Len(s) THEN ParseFailed
        ELSE IF s[i].tok = "}" /\ acc = <<>> THEN Parsed(PyDict(<<>>), i + 1)
        ELSE IF s[i].tok # "str" THEN ParseFailed
        ELSE LET colon == SkipBlanks(s, i + 1)
             IN  IF colon > Len(s) \/ s[colon].tok # ":" THEN ParseFailed
                 ELSE LET item == ParseValue(s, colon + 1)
                          j == SkipBlanks(s, item.next)
                          key == Unescape(s[i].v)[1]
                      IN  IF ~item.ok \/ j > Len(s) THEN ParseFailed
                          ELSE IF s[j].tok = ","
                               THEN ParseMembers(s, j + 1, Append(acc, Item(key, item.value)))
                          ELSE IF s[j].tok = "}"
                               THEN Parsed(PyDict(Append(acc, Item(key, item.value))), j + 1)
                          ELSE ParseFailed

\* <<the value>>, or <<>> for a JSONDecodeError.
json_loads(s) ==
    LET got == ParseValue(s, 1)
    IN  IF got.ok /\ SkipBlanks(s, got.next) > Len(s) THEN <<got.value>> ELSE <<>>

(***************************************************************************)
(* dashboard.py (SpecDashboard): one action is one run of the script, from *)
(* its first line to its last or to the st.stop or exception that ends it. *)
(* st.session_state outlives the run; every local is made anew.            *)
(***************************************************************************)
\* analyze_text_all(text) as one step, given the reply to each of its calls
\* (every segment call of a detection is answered alike).
analyze_text_all(t, r) ==
    LET outs == [i \in 1..Len(Segments(t)) |-> r.detect_segment]
        summary == summarize_using_gpt(r.summarize)
        cls == classify_text_gpt(r.classify)
    IN  IF IsRejected(t) THEN [raised |-> "ValueError", value |-> <<>>]
        ELSE IF ~r.detect_language.ok \/ ~r.analyze_sentiment.ok
                \/ ~r.extract_key_phrases.ok \/ ~r.recognize_entities.ok
                \/ ~r.recognize_pii_entities.ok
             THEN [raised |-> "HttpResponseError", value |-> <<>>]
        ELSE IF summary.raised # "" THEN [raised |-> summary.raised, value |-> <<>>]
        ELSE IF cls.raised # "" THEN [raised |-> cls.raised, value |-> <<>>]
        ELSE [raised |-> "",
              value |-> <<RecordOf(r.detect_language, r.analyze_sentiment,
                                   r.extract_key_phrases, r.recognize_entities,
                                   FilterPii(r.recognize_pii_entities.entities),
                                   summary.value[1],
                                   detect_languages_multiline(Segments(t), outs),
                                   cls.value[1])>>]

\* The replies one analysis of the session can meet: the classifier's request
\* may fail, the segments are English or unreadable, the classifier names one
\* of two categories.
SessionReplies ==
    {[detect_language |-> CHOOSE d \in DocDetectReplies : d.ok,
      analyze_sentiment |-> CHOOSE s \in SentimentReplies : s.ok,
      extract_key_phrases |-> CHOOSE k \in KeyPhraseReplies : k.ok,
      recognize_entities |-> CHOOSE e \in EntityReplies : e.ok,
      recognize_pii_entities |-> CHOOSE p \in PiiReplies : p.ok /\ p.entities = <<>>,
      summarize |-> CHOOSE g \in SummaryReplies : g.ok /\ g.has_content,
      detect_segment |-> sg,
      classify |-> c] :
        sg \in {x \in SegmentReplies : ~x.ok \/ x.iso6391_name = "en"},
        c \in {RequestFailed,
               Completion(<<Doc(JObject(JStr("Education"), JNum(92), JStr("about school")))>>),
               Completion(<<Doc(JObject(JStr("Sports"), JNum(92), JStr("about sport")))>>)}}

\* What a run meets outside the session: the replies to an analysis, the
\* reply to the translator's POST, and whether create_item stores (in a run
\* that saves).
RunReplies(clicked_save) ==
    {[analysis |-> a, post |-> p, stored |-> s] :
        a \in SessionReplies, p \in {"http_error", "ok"},
        s \in IF clicked_save THEN BOOLEAN ELSE {FALSE}}

MaxSessionTextLen == 1

\* The texts of the text area and of the files.
SessionTexts == SeqsUpTo(Alphabet \ {"\n"}, MaxSessionTextLen)

\* An uploaded file: load_text_from_file returns its text, or raises (a pdf
\* that PdfReader cannot read).
UploadedFiles ==
    {[name |-> "notes.txt", loads |-> TRUE, text |-> t] : t \in SessionTexts}
    \cup {[name |-> "scan.pdf", loads |-> FALSE, text |-> <<>>]}

\* st.session_state: the keys it holds, and under each key <<the value>>, or
\* <<>> for None and for a key that is not there.
SessionKeys == {"uploaded_text", "analysis_result", "source_type", "file_name"}

EmptySession ==
    [keys |-> {}, uploaded_text |-> <<>>, analysis_result |-> <<>>,
     source_type |-> <<>>, file_name |-> <<>>, json_cache |-> <<>>]

\* Lines 34-44: a key that is missing is set to None.
SessionDefaults(s) == [s EXCEPT !.keys = s.keys \cup SessionKeys]

\* A handler that leaves the earlier result in place.
SubmitKeepingResult(s, t, source_type, file_name) ==
    [s EXCEPT !.uploaded_text = <<t>>,
              !.source_type = <<source_type>>,
              !.file_name = file_name]

\* Lines 68-71 and 85-88: the four assignments of a submission.
Submit(s, t, source_type, file_name) ==
    [s EXCEPT !.uploaded_text = <<t>>,
              !.analysis_result = <<>>,
              !.source_type = <<source_type>>,
              !.file_name = file_name]

\* "not st.session_state['uploaded_text']": None and the empty string.
NoInput(s) == s.uploaded_text = <<>> \/ s.uploaded_text[1] = <<>>

\* What a run of the script leaves: the session, <<the bytes>> it gave the
\* download button, <<the arguments>> it passed to save_analysis_to_cosmos,
\* and <<the text>> it passed to analyze_text_all when that set the result.
Outcome(s, o, sv, an) == [session |-> s, offered |-> o, saved |-> sv, analysed |-> an]

\* result.get("classification", {}) and the fields the document reads.
AsSaved(res) ==
    [classification |-> DictValue(res.classification.label, res.classification.confidence),
     pii |-> res.pii]

\* Lines 268-278: the call, and the document it hands to create_item. Every
\* exception of the call is caught.
SaveToCosmosDB(s, stored) ==
    LET args == [result |-> s.analysis_result[1], raw_text |-> s.uploaded_text[1],
                 source_type |-> s.source_type, file_name |-> s.file_name]
    IN  [args |-> args,
         doc |-> WithPartitionKey(build_cosmos_document(AsSaved(args.result), args.raw_text,
                                                        args.source_type, args.file_name, 1)),
         stored |-> stored]

\* Lines 280-291: the cache is written only when the key is missing.
Export(s) ==
    LET result_json == json_dumps(PyResult(s.analysis_result[1]))
    IN  IF "json_cache" \in s.keys THEN s
        ELSE [s EXCEPT !.keys = s.keys \cup {"json_cache"},
                       !.json_cache = <<Utf8Encode(result_json)>>]

\* Lines 92-291, from the session the sidebar leaves: st.stop without input;
\* an analysis only while the result is None, and its exception ends the run
\* with the result still None; the TypeError of translate_text ends the run
\* before the last tab.
ScriptFromLine92(s, clicked_save, endpoint, r) ==
    IF NoInput(s) THEN Outcome(s, <<>>, <<>>, <<>>)
    ELSE LET fresh == s.analysis_result = <<>>
             analysis == IF fresh THEN analyze_text_all(s.uploaded_text[1], r.analysis)
                         ELSE [raised |-> "", value |-> s.analysis_result]
             analysed == IF fresh THEN <<s.uploaded_text[1]>> ELSE <<>>
             s1 == [s EXCEPT !.analysis_result = analysis.value]
             translated == translate_text(s1.uploaded_text[1], "en", endpoint, r.post)
             s2 == Export(s1)
         IN  IF analysis.raised # "" THEN Outcome(s, <<>>, <<>>, <<>>)
             ELSE IF translated.raised # "" THEN Outcome(s1, <<>>, <<>>, analysed)
             ELSE Outcome(s2, s2.json_cache,
                          IF clicked_save THEN <<SaveToCosmosDB(s1, r.stored)>> ELSE <<>>,
                          analysed)

IdleAnalysis ==
    /\ pc = "idle"
    /\ text = <<>>
    /\ calls = <<>>
    /\ lang = <<>>
    /\ sentiment = <<>>
    /\ key_phrases = <<>>
    /\ entities = <<>>
    /\ pii = <<>>
    /\ gpt_summary = <<>>
    /\ multi_lang = <<>>
    /\ pii_filtered = <<>>
    /\ result = <<>>
    /\ raised = ""
    /\ inp = <<>>
    /\ out = <<>>

\* No submission yet, and no result set yet.
NoSubmission ==
    [made |-> FALSE, text |-> <<>>, source_type |-> "", file_name |-> <<>>, analysed |-> <<>>]

\* A browser opens the page: the session is empty, the process has read its
\* settings.
InitDashboard ==
    /\ IdleAnalysis
    /\ session = EmptySession
    /\ settings \in {[azure_translate_endpoint |-> e] : e \in EndpointSettings}
    /\ offered = <<>>
    /\ last_save = <<>>
    /\ submitted = NoSubmission

\* The end of a run: what it leaves in the session and on the page. The
\* history keeps the latest submission sub, and the text of the analysis that
\* set the result since.
EndRun(run, sub) ==
    /\ session' = run.session
    /\ offered' = run.offered
    /\ last_save' = run.saved
    /\ submitted' = [sub EXCEPT !.analysed = IF run.analysed # <<>> THEN run.analysed
                                              ELSE sub.analysed]

\* The page has been drawn once: its widgets can be used.
Loaded == session.keys # {}

\* A run no button started: the page loads, or a radio, text area, uploader or
\* select box changed, or the download button was used.
Rerun ==
    /\ \E r \in RunReplies(FALSE) :
        EndRun(ScriptFromLine92(SessionDefaults(session), FALSE,
                                settings.azure_translate_endpoint, r),
               submitted)
    /\ UNCHANGED <<analyzeVars, inp, out, settings>>

\* Lines 56-71: "Analyze Text" with t in the text area.
AnalyzeText ==
    /\ Loaded
    /\ \E t \in SessionTexts, r \in RunReplies(FALSE) :
        EndRun(ScriptFromLine92(Submit(SessionDefaults(session), t, "text", <<>>), FALSE,
                                settings.azure_translate_endpoint, r),
               [made |-> TRUE, text |-> t, source_type |-> "text", file_name |-> <<>>,
                analysed |-> <<>>])
    /\ UNCHANGED <<analyzeVars, inp, out, settings>>

\* Lines 73-88: "Analyze File" with a file in the uploader. An exception of
\* load_text_from_file ends the run at line 85, before any assignment.
AnalyzeFile ==
    /\ Loaded
    /\ \E f \in UploadedFiles, r \in RunReplies(FALSE) :
        IF f.loads
        THEN EndRun(ScriptFromLine92(Submit(SessionDefaults(session), f.text, "file",
                                            <<f.name>>),
                                     FALSE, settings.azure_translate_endpoint, r),
                    [made |-> TRUE, text |-> f.text, source_type |-> "file",
                     file_name |-> <<f.name>>, analysed |-> <<>>])
        ELSE EndRun(Outcome(SessionDefaults(session), <<>>, <<>>, <<>>), submitted)
    /\ UNCHANGED <<analyzeVars, inp, out, settings>>

\* Lines 268-278: "Save to Cosmos DB", a button of the last tab, which the
\* page shows when the run before reached it.
SaveToCosmos ==
    /\ offered # <<>>
    /\ \E r \in RunReplies(TRUE) :
        EndRun(ScriptFromLine92(SessionDefaults(session), TRUE,
                                settings.azure_translate_endpoint, r),
               submitted)
    /\ UNCHANGED <<analyzeVars, inp, out, settings>>

NextDashboard ==
    \/ Rerun
    \/ AnalyzeText
    \/ AnalyzeFile
    \/ SaveToCosmos

SpecDashboard == InitDashboard /\ [][NextDashboard]_vars

\* C12: in a dashboard session, after any sequence of submissions and reruns,
\* the JSON bytes that the download button offers parse back to a record equal,
\* field for field, to the analysis result the session holds now.
C12_DownloadIsTheCurrentResult ==
    offered # <<>> =>
        json_loads(Utf8Decode(offered[1])) = <<PyResult(session.analysis_result[1])>>

\* The records analyze_text_all can return for a text.
IsAnalysisOf(res, t) ==
    \E r \in SessionReplies :
        analyze_text_all(t, r) = [raised |-> "", value |-> <<res>>]

\* C13: in a dashboard session the text, the source type and the file name
\* held are always those of the latest submission; a result that is not None
\* was returned by an analysis, run after that submission, of the text held;
\* and a Save to Cosmos DB passes the result, text, source type and file name
\* of that one submission.
C13_SessionIsOfOneSubmission ==
    /\ submitted.made =>
        /\ session.uploaded_text = <<submitted.text>>
        /\ session.source_type = <<submitted.source_type>>
        /\ session.file_name = submitted.file_name
        /\ submitted.source_type = "text" => session.file_name = <<>>
    /\ session.analysis_result # <<>> =>
        /\ submitted.made
        /\ submitted.analysed = session.uploaded_text
        /\ IsAnalysisOf(session.analysis_result[1], session.uploaded_text[1])
    /\ last_save # <<>> =>
        LET args == last_save[1].args
        IN  /\ submitted.made
            /\ submitted.analysed = <<args.raw_text>>
            /\ args.raw_text = submitted.text
            /\ args.source_type = <<submitted.source_type>>
            /\ args.file_name = submitted.file_name
            /\ IsAnalysisOf(args.result, submitted.text)
            /\ <<args.result>> = session.analysis_result

\* A file's analysis is saved in a session whose export cache still holds the
\* result of an earlier submission.
C13_Witness ==
    /\ last_save # <<>>
    /\ last_save[1].args.source_type = <<"file">>
    /\ last_save[1].args.file_name = <<"notes.txt">>
    /\ last_save[1].args.raw_text = <<"a">>
    /\ json_loads(Utf8Decode(session.json_cache[1]))
            # <<PyResult(last_save[1].args.result)>>

====
